---- MODULE Spec2Model ----
(***************************************************************************)
(* Model of the mount-point registry of RtspRestreamServer                 *)
(* (RestreamServer/RtspMountPoints.cpp): the path reference table, the     *)
(* client -> paths table, the proxy (channel) counter and the factories    *)
(* mounted in the GstRTSPMountPoints base object, driven by the two entry  *)
(* points make_path and client_closed.                                     *)
(***************************************************************************)
EXTENDS Integers, Sequences, FiniteSets, TLC

(* ------------------------------ bounds --------------------------------- *)

\* number of client handles that issue requests
MaxClients == 2

\* cap on a path's reference count (uint32_t in the code)
MaxRefs == 2

\* cap on the proxy counter (uint64_t in the code)
MaxProxy == 3

(* ------------------------------ inputs --------------------------------- *)

Clients == 1..MaxClients

\* url->abspath values, in std::set<std::string> (lexicographic) order
PathSeq == <<"/cam1", "/cam2">>

Paths == {PathSeq[i] : i \in 1..Len(PathSeq)}

\* context->token role: <<>> when the request carries no token / no role
Tokens == {<<>>, <<"admin">>}

\* url->query: <<>> when the URL has no query part
Queries == {<<>>, <<"record">>, <<"RECORD">>}

\* the values MAX_PATHS_COUNT and MAX_CLIENTS_PER_PATH may be built with
\* (0 = no limit)
PathLimits == {0, 1}

ClientLimits == {0, 1, 2}

(* ----------------------------- constants ------------------------------- *)

RecordSuffix == "?record"

\* the pointer value nullptr returned by make_path; a returned string s is <<s>>
nullptr == <<>>

\* callbacks.authorizeAccess: unset (empty std::function), or a policy given
\* as the set of <<user, path>> pairs it allows
AdminOnly == [set |-> TRUE, allow |-> {<<"admin", p>> : p \in Paths}]

NoCallback == [set |-> FALSE, allow |-> {}]

Callbacks == {NoCallback, AdminOnly}

(* ------------------------------- state --------------------------------- *)

VARIABLES
    pathsRefs,        \* CxxPrivate::pathsRefs: path -> reference count
    clientsToPaths,   \* CxxPrivate::clientsToPaths: client -> set of paths
    proxy,            \* _RtspMountPoints::proxy
    callbacks,        \* CxxPrivate::callbacks (authorizeAccess only)
    MAX_PATHS_COUNT,  \* Config.h value the module is built with
    MAX_CLIENTS_PER_PATH,
    mounts,           \* factories mounted in the base object: mount path -> channel
    closedHandlers,   \* per client, the number of "closed" handlers connected
    ret,              \* value returned by the last make_path call
    created,          \* sequence of channel names handed to new factories
    faults,           \* critical log / failed assert / bad mount call seen so far
    threads,          \* per client thread: where it is in make_path / client_closed
    repeated          \* a thread has asked again for a path its client holds

vars == <<pathsRefs, clientsToPaths, proxy, callbacks, MAX_PATHS_COUNT,
          MAX_CLIENTS_PER_PATH, mounts, closedHandlers, ret, created,
          faults, threads, repeated>>

\* the part of the state only the interleaved calls of SpecThreads use
threadVars == <<threads, repeated>>

config == <<callbacks, MAX_PATHS_COUNT, MAX_CLIENTS_PER_PATH>>

\* the registry state other than the value returned
registry == <<pathsRefs, clientsToPaths, proxy, mounts, closedHandlers, created, faults>>

(* ------------------------------ helpers -------------------------------- *)

\* std::map::erase
Erase(m, k) == [x \in DOMAIN m \ {k} |-> m[x]]

\* std::map::emplace (no effect on an existing key)
Emplace(m, k, v) == IF k \in DOMAIN m THEN m ELSE [x \in DOMAIN m \cup {k} |-> IF x = k THEN v ELSE m[x]]

\* path + RecordSuffix / g_strconcat(url->abspath, "?record", nullptr)
RecordPath(path) == path \o RecordSuffix

\* fmt::format("proxy{}", n)
ProxyName(n) == "proxy" \o ToString(n)

\* a counter that is read but not advanced
NextProxy_Stuck(n) == n

\* self->proxy++ : the value stored back
NextProxy(n) == n + 1

\* make_path, line 170: g_strcmp0(url->query, "record") == 0
IsRecord(query) == query # <<>> /\ query[1] = "record"

\* the suffix is put on the wrong way round
ReturnedPath_Swapped(path, isRecord) ==
    IF isRecord THEN <<path>> ELSE <<path \o "?record">>

\* make_path, lines 249-252: the string returned by an admitted call
ReturnedPath(path, isRecord) ==
    IF isRecord THEN <<path \o "?record">> ELSE <<path>>

\* gst_rtsp_mount_points_add_factory on the pair <<mounts, faults>>:
\* an existing factory at that path is replaced
AddFactory(mf, mountPath, factory) ==
    [m |-> [x \in DOMAIN mf.m \cup {mountPath} |-> IF x = mountPath THEN factory ELSE mf.m[x]],
     f |-> IF mountPath \in DOMAIN mf.m THEN mf.f \cup {"add_mounted"} ELSE mf.f]

\* gst_rtsp_mount_points_remove_factory: nothing happens if nothing is mounted
RemoveFactory(mf, mountPath) ==
    [m |-> Erase(mf.m, mountPath),
     f |-> IF mountPath \in DOMAIN mf.m THEN mf.f ELSE mf.f \cup {"remove_unmounted"}]

\* the answer of the callback is dropped
authorize_access_Ignored(cb, token, abspath) ==
    IF cb.set
    THEN LET user == IF token = <<>> THEN "" ELSE token[1]
         IN  <<user, abspath>> \in cb.allow \/ TRUE
    ELSE TRUE

\* authorize_access
authorize_access(cb, token, abspath) ==
    IF cb.set
    THEN LET user == IF token = <<>> THEN "" ELSE token[1]
         IN  <<user, abspath>> \in cb.allow
    ELSE TRUE

\* the path limit compared with > instead of >=
MaxPathsReached_Off(refs, path, maxPaths) ==
    /\ maxPaths > 0
    /\ path \notin DOMAIN refs
    /\ Cardinality(DOMAIN refs) > maxPaths

\* make_path, lines 181-183
MaxPathsReached(refs, path, maxPaths) ==
    /\ maxPaths > 0
    /\ path \notin DOMAIN refs
    /\ Cardinality(DOMAIN refs) >= maxPaths

\* the client limit compared with > instead of >=
MaxClientsReached_Off(refs, path, maxClients) ==
    /\ maxClients > 0
    /\ path \in DOMAIN refs
    /\ refs[path] > maxClients

\* make_path, lines 192-194
MaxClientsReached(refs, path, maxClients) ==
    /\ maxClients > 0
    /\ path \in DOMAIN refs
    /\ refs[path] >= maxClients

\* the handler is connected on every admitted request
ConnectClosed_Always(handlers, c2p, client) ==
    [handlers EXCEPT ![client] = @ + 1]

\* make_path, lines 205-210: g_signal_connect(context->client, "closed", ...)
\* for a client that is not in the client table
ConnectClosed(handlers, c2p, client) ==
    IF client \notin DOMAIN c2p
    THEN [handlers EXCEPT ![client] = @ + 1]
    ELSE handlers

\* make_path, lines 203-218: the client table after the call
AddClientPath(c2p, client, path) ==
    IF client \notin DOMAIN c2p
    THEN Emplace(c2p, client, {path})
    ELSE [c2p EXCEPT ![client] = @ \cup {path}]

\* make_path, lines 203-218: the value of addPathRef
AddPathRef(c2p, client, path) ==
    IF client \notin DOMAIN c2p THEN TRUE ELSE path \notin c2p[client]

\* only the play factory is mounted
MountPair_PlayOnly(mf, path, proxyName) ==
    AddFactory(mf, path, [kind |-> "play", channel |-> proxyName])

\* make_path, lines 227-241: mount the pair of factories of a new path
MountPair(mf, path, proxyName) ==
    AddFactory(AddFactory(mf, path, [kind |-> "play", channel |-> proxyName]),
               RecordPath(path), [kind |-> "record", channel |-> proxyName])

\* only the play factory is removed
UnmountPair_PlayOnly(mf, path) == RemoveFactory(mf, path)

\* client_closed, lines 117-123: unmount the pair of factories of a path
UnmountPair(mf, path) ==
    RemoveFactory(RemoveFactory(mf, path), RecordPath(path))

\* the count is lowered by two
ReleasePath_ByTwo(st, path) ==
    IF path \notin DOMAIN st.refs
    THEN [st EXCEPT !.mf.f = @ \cup {"inconsistent"}]
    ELSE LET n == st.refs[path] - 2
         IN  IF 0 = n
             THEN [refs |-> Erase(st.refs, path), mf |-> UnmountPair(st.mf, path)]
             ELSE [st EXCEPT !.refs[path] = n]

\* the entry is dropped whatever the count it is lowered to
ReleasePath_DropEntry(st, path) ==
    IF path \notin DOMAIN st.refs
    THEN [st EXCEPT !.mf.f = @ \cup {"inconsistent"}]
    ELSE [refs |-> Erase(st.refs, path), mf |-> UnmountPair(st.mf, path)]

\* the entry of a path whose count reached 0 is left in the table
ReleasePath_KeepZero(st, path) ==
    IF path \notin DOMAIN st.refs
    THEN [st EXCEPT !.mf.f = @ \cup {"inconsistent"}]
    ELSE LET n == st.refs[path] - 1
         IN  IF 0 = n
             THEN [refs |-> [st.refs EXCEPT ![path] = n], mf |-> UnmountPair(st.mf, path)]
             ELSE [st EXCEPT !.refs[path] = n]

\* client_closed, lines 108-130: the loop body for one held path, on the
\* state st = [refs, mf]
ReleasePath(st, path) ==
    IF path \notin DOMAIN st.refs
    THEN [st EXCEPT !.mf.f = @ \cup {"inconsistent"}]
    ELSE LET n == st.refs[path] - 1
         IN  IF 0 = n
             THEN [refs |-> Erase(st.refs, path), mf |-> UnmountPair(st.mf, path)]
             ELSE [st EXCEPT !.refs[path] = n]

\* the loop leaves after the first held path
ReleaseAll_FirstOnly(st, held, i) ==
    LET rest == {j \in i..Len(PathSeq) : PathSeq[j] \in held}
    IN  IF rest = {} THEN st
        ELSE ReleasePath(st, PathSeq[CHOOSE j \in rest : \A k \in rest : j <= k])

\* client_closed, line 107: the loop over the client's paths, in set order
RECURSIVE ReleaseAll(_, _, _)
ReleaseAll(st, held, i) ==
    IF i > Len(PathSeq) THEN st
    ELSE ReleaseAll(IF PathSeq[i] \in held THEN ReleasePath(st, PathSeq[i]) ELSE st,
                    held, i + 1)

\* std::map::lower_bound in the place of find: the first entry at or after
\* the client
ClosedSession_LowerBound(c2p, client) ==
    LET after == {c \in DOMAIN c2p : c >= client}
    IN  IF after = {} THEN <<>>
        ELSE <<CHOOSE c \in after : \A d \in after : c <= d>>

\* client_closed, lines 100-101: p.clientsToPaths.find(client); <<>> is end()
ClosedSession(c2p, client) ==
    IF client \in DOMAIN c2p THEN <<client>> ELSE <<>>

\* the "closed" signal is the last one a GstRTSPClient emits: the object is
\* finalized after it and its handlers go with it, so a later request under
\* the same handle comes from a new client object
ClientFinalized(handlers, client) == [handlers EXCEPT ![client] = 0]

\* a thread that is in neither function; the locals of a call in progress are
\* path, isRecord, found (pathRefsIt != end() at line 180), n (the value read
\* from self->proxy) and held (the paths client_closed still has to visit)
Idle == [pc |-> "idle", path |-> "", isRecord |-> FALSE, found |-> FALSE,
         n |-> 0, held |-> {}]

(* -------------------------------- Init --------------------------------- *)

\* rtsp_mount_points_init + rtsp_mount_points_new
Init ==
    /\ pathsRefs = <<>>
    /\ clientsToPaths = <<>>
    /\ proxy = 0
    /\ callbacks \in Callbacks
    /\ MAX_PATHS_COUNT \in PathLimits
    /\ MAX_CLIENTS_PER_PATH \in ClientLimits
    /\ mounts = <<>>
    /\ closedHandlers = [c \in Clients |-> 0]
    /\ ret = nullptr
    /\ created = <<>>
    /\ faults = {}
    /\ threads = [c \in Clients |-> Idle]
    /\ repeated = FALSE

(* ------------------------------- actions ------------------------------- *)

\* the path limit is not looked at
Rejected_NoPathLimit(client, token, path) ==
    \/ ~authorize_access(callbacks, token, path)
    \/ MaxClientsReached(pathsRefs, path, MAX_CLIENTS_PER_PATH)

\* make_path returns nullptr before touching the tables
Rejected(client, token, path) ==
    \/ ~authorize_access(callbacks, token, path)
    \/ MaxPathsReached(pathsRefs, path, MAX_PATHS_COUNT)
    \/ MaxClientsReached(pathsRefs, path, MAX_CLIENTS_PER_PATH)

\* the counters of an admitted call stay within the model's caps
WithinCaps(path) ==
    IF path \in DOMAIN pathsRefs THEN pathsRefs[path] < MaxRefs ELSE proxy < MaxProxy

make_path(client, token, path, isRecord) ==
    /\ UNCHANGED <<config, threadVars>>
    /\ IF Rejected(client, token, path)
       THEN /\ ret' = nullptr
            /\ UNCHANGED <<pathsRefs, clientsToPaths, proxy, mounts,
                           closedHandlers, created, faults>>
       ELSE /\ WithinCaps(path)
            /\ LET addPathRef == AddPathRef(clientsToPaths, client, path)
               IN
               /\ closedHandlers' =
                      ConnectClosed(closedHandlers, clientsToPaths, client)
               /\ clientsToPaths' = AddClientPath(clientsToPaths, client, path)
               /\ IF path \notin DOMAIN pathsRefs
                  THEN LET proxyName == ProxyName(proxy)
                           mf == MountPair(
                                    [m |-> mounts,
                                     f |-> IF addPathRef THEN faults
                                           ELSE faults \cup {"assert"}],
                                    path, proxyName)
                       IN  /\ proxy' = NextProxy(proxy)
                           /\ created' = Append(created, proxyName)
                           /\ mounts' = mf.m
                           /\ faults' = mf.f
                           /\ pathsRefs' = Emplace(pathsRefs, path, 1)
                  ELSE /\ pathsRefs' = [pathsRefs EXCEPT ![path] = @ + 1]
                       /\ UNCHANGED <<proxy, created, mounts, faults>>
            /\ ret' = ReturnedPath(path, isRecord)

client_closed(client) ==
    /\ UNCHANGED <<config, proxy, ret, created, threadVars>>
    /\ closedHandlers' = ClientFinalized(closedHandlers, client)
    /\ LET clientPathsIt == ClosedSession(clientsToPaths, client)
       IN  IF clientPathsIt = <<>>
           THEN UNCHANGED <<pathsRefs, clientsToPaths, mounts, faults>>
           ELSE LET st == ReleaseAll([refs |-> pathsRefs,
                                      mf |-> [m |-> mounts, f |-> faults]],
                                     clientsToPaths[clientPathsIt[1]], 1)
                IN  /\ pathsRefs' = st.refs
                    /\ mounts' = st.mf.m
                    /\ faults' = st.mf.f
                    /\ clientsToPaths' = Erase(clientsToPaths, clientPathsIt[1])

Next ==
    \/ \E client \in Clients, token \in Tokens, path \in Paths, query \in Queries :
           make_path(client, token, path, IsRecord(query))
    \/ \E client \in Clients : client_closed(client)

Spec == Init /\ [][Next]_vars

(* ------------------- the two functions, not atomically ------------------ *)

\* Neither function takes a lock. Below, every client has a thread of its own
\* that runs make_path and client_closed for it one call at a time, and the
\* calls of different clients interleave between the statements that read
\* and the statements that write the shared tables and the proxy counter.
\* Only interleavings of whole statements are taken, which are some of the
\* executions the unsynchronised code has.

Running == "crash" \notin faults

\* the counters stay within the model's caps when every call in progress
\* has done its write as well
WithinThreadCaps(path) ==
    LET creating == {c \in Clients : threads[c].pc \in {"client", "proxy", "create"}
                                     /\ ~threads[c].found}
        raising == {c \in Clients : threads[c].pc \in {"client", "increment"}
                                    /\ threads[c].found /\ threads[c].path = path}
    IN  IF path \in DOMAIN pathsRefs
        THEN pathsRefs[path] + Cardinality(raising) < MaxRefs
        ELSE Len(created) + Cardinality(creating) < MaxProxy

\* make_path, lines 166-201: authorization, pathsRefs.find and the two limits
mp_lookup(client, token, path, isRecord) ==
    /\ Running
    /\ threads[client].pc = "idle"
    /\ UNCHANGED <<config, registry, repeated>>
    /\ IF Rejected(client, token, path)
       THEN ret' = nullptr /\ UNCHANGED threads
       ELSE /\ WithinThreadCaps(path)
            /\ threads' = [threads EXCEPT ![client] =
                   [Idle EXCEPT !.pc = "client", !.path = path,
                                !.isRecord = isRecord,
                                !.found = path \in DOMAIN pathsRefs]]
            /\ UNCHANGED ret

\* make_path, lines 203-225: the client table, addPathRef and the assert
mp_client(client) ==
    LET t == threads[client]
        addPathRef == AddPathRef(clientsToPaths, client, t.path)
    IN  /\ Running
        /\ t.pc = "client"
        /\ closedHandlers' = ConnectClosed(closedHandlers, clientsToPaths, client)
        /\ clientsToPaths' = AddClientPath(clientsToPaths, client, t.path)
        /\ repeated' = (repeated \/ ~addPathRef)
        /\ faults' = IF ~t.found /\ ~addPathRef THEN faults \cup {"assert"} ELSE faults
        /\ threads' = [threads EXCEPT ![client].pc =
                           IF t.found THEN "increment" ELSE "proxy"]
        /\ UNCHANGED <<config, pathsRefs, proxy, mounts, ret, created>>

\* make_path, line 228: the read of self->proxy++
mp_proxy_read(client) ==
    /\ Running
    /\ threads[client].pc = "proxy"
    /\ threads' = [threads EXCEPT ![client].n = proxy, ![client].pc = "create"]
    /\ UNCHANGED <<config, registry, ret, repeated>>

\* make_path, lines 228-252: the write of self->proxy++, the two factories,
\* the two mounts, pathsRefs.emplace(path, 1) and the return
mp_create(client) ==
    LET t == threads[client]
        proxyName == ProxyName(t.n)
        mf == MountPair([m |-> mounts, f |-> faults], t.path, proxyName)
    IN  /\ Running
        /\ t.pc = "create"
        /\ proxy' = NextProxy(t.n)
        /\ created' = Append(created, proxyName)
        /\ mounts' = mf.m
        /\ faults' = mf.f
        /\ pathsRefs' = Emplace(pathsRefs, t.path, 1)
        /\ ret' = ReturnedPath(t.path, t.isRecord)
        /\ threads' = [threads EXCEPT ![client] = Idle]
        /\ UNCHANGED <<config, clientsToPaths, closedHandlers, repeated>>

\* make_path, lines 243-252: ++(pathRefsIt->second) and the return. When the
\* entry was erased since line 180 the iterator dangles: the write is lost in
\* the freed node, or the process dies
mp_increment(client) ==
    LET t == threads[client]
    IN  /\ Running
        /\ t.pc = "increment"
        /\ threads' = [threads EXCEPT ![client] = Idle]
        /\ ret' = ReturnedPath(t.path, t.isRecord)
        /\ UNCHANGED <<config, clientsToPaths, proxy, mounts, closedHandlers,
                       created, repeated>>
        /\ IF t.path \in DOMAIN pathsRefs
           THEN /\ pathsRefs' = [pathsRefs EXCEPT ![t.path] = @ + 1]
                /\ UNCHANGED faults
           ELSE /\ UNCHANGED pathsRefs
                /\ \E outcome \in {{"dangling_iterator"}, {"dangling_iterator", "crash"}} :
                       faults' = faults \cup outcome

\* client_closed, lines 100-106: clientsToPaths.find
cc_lookup(client) ==
    LET clientPathsIt == ClosedSession(clientsToPaths, client)
    IN  /\ Running
        /\ threads[client].pc = "idle"
        /\ UNCHANGED <<config, pathsRefs, clientsToPaths, proxy, mounts, ret,
                       created, faults, repeated>>
        /\ IF clientPathsIt = <<>>
           THEN /\ closedHandlers' = ClientFinalized(closedHandlers, client)
                /\ UNCHANGED threads
           ELSE /\ threads' = [threads EXCEPT ![client] =
                       [Idle EXCEPT !.pc = "release",
                                    !.held = clientsToPaths[clientPathsIt[1]]]]
                /\ UNCHANGED closedHandlers

\* the first path, in set order, of the paths still to visit
FirstHeld(held) ==
    PathSeq[CHOOSE i \in 1..Len(PathSeq) :
                /\ PathSeq[i] \in held
                /\ \A j \in 1..Len(PathSeq) : PathSeq[j] \in held => i <= j]

\* client_closed, lines 107-131: one iteration of the loop
cc_release(client) ==
    LET t == threads[client]
    IN  /\ Running
        /\ t.pc = "release"
        /\ t.held # {}
        /\ LET path == FirstHeld(t.held)
               st == ReleasePath([refs |-> pathsRefs,
                                  mf |-> [m |-> mounts, f |-> faults]], path)
           IN  /\ pathsRefs' = st.refs
               /\ mounts' = st.mf.m
               /\ faults' = st.mf.f
               /\ threads' = [threads EXCEPT ![client].held = @ \ {path}]
        /\ UNCHANGED <<config, clientsToPaths, proxy, closedHandlers, ret,
                       created, repeated>>

\* client_closed, line 132: clientsToPaths.erase(clientPathsIt)
cc_erase(client) ==
    LET t == threads[client]
    IN  /\ Running
        /\ t.pc = "release"
        /\ t.held = {}
        /\ clientsToPaths' = Erase(clientsToPaths, client)
        /\ closedHandlers' = ClientFinalized(closedHandlers, client)
        /\ threads' = [threads EXCEPT ![client] = Idle]
        /\ UNCHANGED <<config, pathsRefs, proxy, mounts, ret, created, faults,
                       repeated>>

NextThreads ==
    \/ \E client \in Clients, token \in Tokens, path \in Paths, query \in Queries :
           mp_lookup(client, token, path, IsRecord(query))
    \/ \E client \in Clients : mp_client(client)
    \/ \E client \in Clients : mp_proxy_read(client)
    \/ \E client \in Clients : mp_create(client)
    \/ \E client \in Clients : mp_increment(client)
    \/ \E client \in Clients : cc_lookup(client)
    \/ \E client \in Clients : cc_release(client)
    \/ \E client \in Clients : cc_erase(client)

\* the interleavings are explored for a build without limits and without an
\* authorization callback
InitThreads ==
    /\ Init
    /\ callbacks = NoCallback
    /\ MAX_PATHS_COUNT = 0
    /\ MAX_CLIENTS_PER_PATH = 0

SpecThreads == InitThreads /\ [][NextThreads]_vars

(* --------------------------- derived notions --------------------------- *)

\* refcount(p): the stored count, 0 for a path that is not in the table
RefcountIn(refs, p) == IF p \in DOMAIN refs THEN refs[p] ELSE 0

\* the tracked clients whose path set contains p
HoldersIn(c2p, p) == {c \in DOMAIN c2p : p \in c2p[c]}

Holds(client, path) ==
    client \in DOMAIN clientsToPaths /\ path \in clientsToPaths[client]

\* what the configured policy answers, stated on the configuration
PolicyAllows(token, path) ==
    \/ callbacks = NoCallback
    \/ <<IF token = <<>> THEN "" ELSE token[1], path>> \in callbacks.allow

\* the canonical path an admitted request gets back
Canonical(path, isRecord) == IF isRecord THEN <<path \o "?record">> ELSE <<path>>

(* -------------------------------- claims ------------------------------- *)

\* C1: for every path in the table, its refcount equals the number of client
\* sessions whose held-path set contains it.
C1_RefcountEqualsHolders ==
    \A p \in DOMAIN pathsRefs :
        pathsRefs[p] = Cardinality(HoldersIn(clientsToPaths, p))

\* C2: an admitted request of a client for a path it already holds leaves the
\* refcount of that path as it was.
C2_DuplicateRequestKeepsRefcount ==
    [][\A client \in Clients, token \in Tokens, path \in Paths, isRecord \in BOOLEAN :
          (/\ Holds(client, path)
           /\ make_path(client, token, path, isRecord)
           /\ ret' # nullptr)
          => RefcountIn(pathsRefs', path) = RefcountIn(pathsRefs, path)]_vars

\* C3: a path that no tracked client holds any more (every client that
\* resolved it has been disconnected) is absent from the table and neither of
\* its two endpoints is mounted.
C3_NoMountPointLeak ==
    \A p \in Paths :
        HoldersIn(clientsToPaths, p) = {}
        => /\ p \notin DOMAIN pathsRefs
           /\ p \notin DOMAIN mounts
           /\ RecordPath(p) \notin DOMAIN mounts

\* C4: with a per-path client limit L > 0 and refcount(path) = L, a client that
\* already holds the path (and passes authorization) is admitted and gets the
\* canonical path back.
C4_HolderAdmittedAtLimit ==
    [][\A client \in Clients, token \in Tokens, path \in Paths, isRecord \in BOOLEAN :
          (/\ MAX_CLIENTS_PER_PATH > 0
           /\ RefcountIn(pathsRefs, path) = MAX_CLIENTS_PER_PATH
           /\ Holds(client, path)
           /\ PolicyAllows(token, path)
           /\ make_path(client, token, path, isRecord))
          => ret' = Canonical(path, isRecord)]_vars

\* C5: with a per-path client limit L > 0 every path in the table has
\* refcount <= L and at most L distinct holders, and a request of a client not
\* holding the path is rejected when refcount = L.
C5_ClientLimitState ==
    MAX_CLIENTS_PER_PATH > 0
    => \A p \in DOMAIN pathsRefs :
           /\ pathsRefs[p] <= MAX_CLIENTS_PER_PATH
           /\ Cardinality(HoldersIn(clientsToPaths, p)) <= MAX_CLIENTS_PER_PATH

\* (no step is such a call that ends in anything but a rejection)
C5_ClientLimitStep ==
    ~ \E client \in Clients, token \in Tokens, path \in Paths, isRecord \in BOOLEAN :
        /\ MAX_CLIENTS_PER_PATH > 0
        /\ RefcountIn(pathsRefs, path) = MAX_CLIENTS_PER_PATH
        /\ ~Holds(client, path)
        /\ ~ (/\ ret' = nullptr
              /\ pathsRefs' = pathsRefs
              /\ clientsToPaths' = clientsToPaths)
        /\ make_path(client, token, path, isRecord)

C5_ClientLimit == []C5_ClientLimitState /\ [][C5_ClientLimitStep]_vars

\* a second client has just been refused a path that is full
C5_Witness ==
    /\ MAX_CLIENTS_PER_PATH > 0
    /\ MAX_PATHS_COUNT = 0
    /\ callbacks = NoCallback
    /\ ret = nullptr
    /\ \E p \in DOMAIN pathsRefs :
           /\ pathsRefs[p] = MAX_CLIENTS_PER_PATH
           /\ Cardinality(HoldersIn(clientsToPaths, p)) = MAX_CLIENTS_PER_PATH
           /\ \E c \in Clients : ~Holds(c, p)

\* C6: with a path limit M > 0 the table never holds more than M paths: a
\* request for a path not in the table is rejected when the table holds M
\* paths, and a request for a path in the table is not rejected by this limit.
C6_PathLimitState ==
    MAX_PATHS_COUNT > 0 => Cardinality(DOMAIN pathsRefs) <= MAX_PATHS_COUNT

\* (no step is a call for a new path on a full table that ends in anything
\* but a rejection, nor a call for a path in the table, allowed by the policy
\* and the client limit, that ends in anything but the canonical path)
C6_PathLimitStep ==
    ~ \E client \in Clients, token \in Tokens, path \in Paths, isRecord \in BOOLEAN :
        \/ /\ MAX_PATHS_COUNT > 0
           /\ path \notin DOMAIN pathsRefs
           /\ Cardinality(DOMAIN pathsRefs) = MAX_PATHS_COUNT
           /\ ~ (/\ ret' = nullptr
                 /\ pathsRefs' = pathsRefs
                 /\ mounts' = mounts)
           /\ make_path(client, token, path, isRecord)
        \/ /\ path \in DOMAIN pathsRefs
           /\ PolicyAllows(token, path)
           /\ (MAX_CLIENTS_PER_PATH = 0 \/ pathsRefs[path] < MAX_CLIENTS_PER_PATH)
           /\ ret' # Canonical(path, isRecord)
           /\ make_path(client, token, path, isRecord)

C6_PathLimit == []C6_PathLimitState /\ [][C6_PathLimitStep]_vars

\* the table is full, a new path has just been refused
C6_Witness ==
    /\ MAX_PATHS_COUNT > 0
    /\ MAX_CLIENTS_PER_PATH = 0
    /\ callbacks = NoCallback
    /\ Cardinality(DOMAIN pathsRefs) = MAX_PATHS_COUNT
    /\ ret = nullptr

\* C7: a path is in the table iff its refcount is > 0 (no stored count is 0
\* or negative), and a disconnect that takes a count from 1 to 0 erases the
\* entry in that same step.
C7_PresentIffPositiveState ==
    /\ \A p \in DOMAIN pathsRefs : pathsRefs[p] \in Nat /\ pathsRefs[p] > 0
    /\ \A p \in Paths : (p \in DOMAIN pathsRefs) <=> (RefcountIn(pathsRefs, p) > 0)

C7_ErasedAtZeroStep ==
    \A client \in DOMAIN clientsToPaths :
        client_closed(client)
        => \A p \in clientsToPaths[client] :
               RefcountIn(pathsRefs, p) = 1 => p \notin DOMAIN pathsRefs'

C7_PresentIffPositive ==
    []C7_PresentIffPositiveState /\ [][C7_ErasedAtZeroStep]_vars

\* a path was created and its last reference has been released
C7_Witness ==
    /\ created # <<>>
    /\ clientsToPaths = <<>>
    /\ pathsRefs = <<>>

\* C8: the play endpoint is mounted at p iff the record endpoint is mounted at
\* p + "?record" iff p is in the table, both on one channel; nothing is
\* mounted over a mounted endpoint and nothing unmounted is removed.
C8_EndpointsPairedWithTable ==
    /\ \A p \in Paths :
           /\ (p \in DOMAIN mounts) <=> (p \in DOMAIN pathsRefs)
           /\ (RecordPath(p) \in DOMAIN mounts) <=> (p \in DOMAIN pathsRefs)
           /\ p \in DOMAIN mounts /\ RecordPath(p) \in DOMAIN mounts
              => /\ mounts[p].kind = "play"
                 /\ mounts[RecordPath(p)].kind = "record"
                 /\ mounts[p].channel = mounts[RecordPath(p)].channel
    /\ DOMAIN mounts \subseteq Paths \cup {RecordPath(p) : p \in Paths}
    /\ "add_mounted" \notin faults
    /\ "remove_unmounted" \notin faults

\* one pair has been unmounted and another one is mounted
C8_Witness ==
    /\ Len(created) >= 2
    /\ Cardinality(DOMAIN pathsRefs) = 1
    /\ Cardinality(DOMAIN mounts) = 2

\* C9: client_closed for a tracked client lowers the refcount of exactly the
\* paths that client holds, each by 1, changes no other path, leaves the path
\* sets of the other clients alone and removes the client's entry.
C9_DisconnectFrameStep ==
    \A client \in DOMAIN clientsToPaths :
        client_closed(client)
        => /\ \A p \in Paths :
                  RefcountIn(pathsRefs', p) =
                      RefcountIn(pathsRefs, p)
                          - (IF p \in clientsToPaths[client] THEN 1 ELSE 0)
           /\ \A p \in Paths \ clientsToPaths[client] :
                  (p \in DOMAIN pathsRefs') <=> (p \in DOMAIN pathsRefs)
           /\ DOMAIN clientsToPaths' = DOMAIN clientsToPaths \ {client}
           /\ \A other \in DOMAIN clientsToPaths \ {client} :
                  clientsToPaths'[other] = clientsToPaths[other]

C9_DisconnectFrame == [][C9_DisconnectFrameStep]_vars

\* a disconnect has taken a path out of the table while the one client still
\* tracked keeps its own path
C9_Witness ==
    /\ Len(created) >= 2
    /\ Cardinality(DOMAIN pathsRefs) = 1
    /\ \E c \in DOMAIN clientsToPaths :
           /\ DOMAIN clientsToPaths = {c}
           /\ clientsToPaths[c] = DOMAIN pathsRefs

\* C10: no two factory pairs ever get the same channel name, every creation
\* takes the next counter value, and the counter never decreases.
C10_NamesDistinct ==
    \A i, j \in 1..Len(created) : i # j => created[i] # created[j]

C10_CounterStep ==
    /\ proxy' >= proxy
    /\ Len(created') # Len(created)
       => /\ proxy' = proxy + 1
          /\ created' = Append(created, ProxyName(proxy))
    /\ \A p \in Paths :
           p \notin DOMAIN pathsRefs /\ p \in DOMAIN pathsRefs'
           => Len(created') = Len(created) + 1

C10_ChannelNamesNeverReused == []C10_NamesDistinct /\ [][C10_CounterStep]_vars

\* a path was torn down and created again under a new channel name
C10_Witness ==
    \E p \in DOMAIN pathsRefs :
        /\ Len(created) >= 2
        /\ mounts[p].channel = created[Len(created)]
        /\ DOMAIN pathsRefs = {p}
        /\ Len(created) = MaxProxy

\* the limits as configured, stated on the state before a call
PathLimitHit(path) ==
    /\ MAX_PATHS_COUNT > 0
    /\ path \notin DOMAIN pathsRefs
    /\ Cardinality(DOMAIN pathsRefs) >= MAX_PATHS_COUNT

ClientLimitHit(path) ==
    /\ MAX_CLIENTS_PER_PATH > 0
    /\ RefcountIn(pathsRefs, path) >= MAX_CLIENTS_PER_PATH

\* C13: an admitted request returns exactly the path when its query is not
\* the publish marker and the path followed by "?record" when it is; a
\* rejected request returns nullptr; whichever the role, the entry referenced
\* is the one keyed by the path.
C13_ReturnedPathStep ==
    ~ \E client \in Clients, token \in Tokens, path \in Paths, query \in Queries :
        /\ LET admitted == /\ PolicyAllows(token, path)
                           /\ ~PathLimitHit(path)
                           /\ ~ClientLimitHit(path)
           IN  ~ (/\ admitted /\ query = <<"record">> => ret' = <<path \o "?record">>
                  /\ admitted /\ query # <<"record">> => ret' = <<path>>
                  /\ ~admitted => ret' = nullptr
                  /\ admitted => /\ DOMAIN pathsRefs' = DOMAIN pathsRefs \cup {path}
                                 /\ client \in DOMAIN clientsToPaths'
                                 /\ path \in clientsToPaths'[client]
                                 /\ DOMAIN mounts' =
                                        DOMAIN mounts \cup {path, path \o "?record"})
        /\ make_path(client, token, path, IsRecord(query))

C13_ReturnedPath == [][C13_ReturnedPathStep]_vars

\* a publish request has been admitted on a path created by a play request
C13_Witness ==
    \E p \in DOMAIN pathsRefs :
        /\ ret = <<p \o "?record">>
        /\ pathsRefs[p] = 2
        /\ Cardinality(HoldersIn(clientsToPaths, p)) = 2
        /\ DOMAIN mounts = {p, p \o "?record"}

\* C14: play and publish requests for one path share the entry keyed by the
\* path: a play request of client a for an absent path gives refcount 1 and a
\* mounted path; a publish request of another client b gives refcount 2 and
\* returns the path with "?record"; the disconnect of a leaves refcount 1 and
\* the path mounted; the disconnect of b then leaves the path absent and both
\* endpoints unmounted.
C14_SharedEntryStep ==
    \A p \in Paths :
        LET mountedAfter == p \in DOMAIN mounts' /\ RecordPath(p) \in DOMAIN mounts'
            goneAfter == p \notin DOMAIN mounts' /\ RecordPath(p) \notin DOMAIN mounts'
        IN
        /\ ~ \E a \in Clients, token \in Tokens :
               /\ p \notin DOMAIN pathsRefs
               /\ PolicyAllows(token, p) /\ ~PathLimitHit(p)
               /\ ~ (/\ ret' = <<p>>
                     /\ RefcountIn(pathsRefs', p) = 1
                     /\ mountedAfter)
               /\ make_path(a, token, p, FALSE)
        /\ ~ \E b \in Clients, token \in Tokens :
               /\ RefcountIn(pathsRefs, p) = 1
               /\ ~Holds(b, p)
               /\ PolicyAllows(token, p) /\ ~ClientLimitHit(p)
               /\ ~ (/\ ret' = <<p \o "?record">>
                     /\ RefcountIn(pathsRefs', p) = 2
                     /\ mountedAfter)
               /\ make_path(b, token, p, TRUE)
        /\ \A a \in DOMAIN clientsToPaths :
               (/\ RefcountIn(pathsRefs, p) = 2
                /\ Cardinality(HoldersIn(clientsToPaths, p)) = 2
                /\ p \in clientsToPaths[a]
                /\ client_closed(a))
               => RefcountIn(pathsRefs', p) = 1 /\ mountedAfter
        /\ \A b \in DOMAIN clientsToPaths :
               (/\ RefcountIn(pathsRefs, p) = 1
                /\ HoldersIn(clientsToPaths, p) = {b}
                /\ client_closed(b))
               => p \notin DOMAIN pathsRefs' /\ goneAfter

C14_SharedEntry == [][C14_SharedEntryStep]_vars

\* after the play request of one client, the publish request of the other
\* and the disconnect of the first: one reference left, the pair still mounted
C14_Witness ==
    /\ created = <<"proxy0">>
    /\ ret = <<"/cam1?record">>
    /\ pathsRefs = [p \in {"/cam1"} |-> 1]
    /\ \E b \in Clients : /\ DOMAIN clientsToPaths = {b}
                          /\ clientsToPaths[b] = {"/cam1"}
                          /\ closedHandlers = [c \in Clients |-> IF c = b THEN 1 ELSE 0]
    /\ DOMAIN mounts = {"/cam1", "/cam1?record"}
    /\ MAX_CLIENTS_PER_PATH = 2

\* C15: a request the authorization policy refuses is rejected whatever the
\* tables and limits are and changes nothing, and with no authorization
\* callback configured no request is rejected unless a limit is hit.
C15_AuthorizationStep ==
    ~ \E client \in Clients, token \in Tokens, path \in Paths, isRecord \in BOOLEAN :
        /\ \/ /\ callbacks.set
              /\ <<IF token = <<>> THEN "" ELSE token[1], path>> \notin callbacks.allow
              /\ ~ (ret' = nullptr /\ registry' = registry)
           \/ /\ ~callbacks.set
              /\ ~PathLimitHit(path) /\ ~ClientLimitHit(path)
              /\ ret' = nullptr
        /\ make_path(client, token, path, isRecord)

C15_Authorization == [][C15_AuthorizationStep]_vars

\* with no limit configured a request has been refused by the policy while a
\* path is mounted
C15_Witness ==
    /\ callbacks = AdminOnly
    /\ MAX_PATHS_COUNT = 0
    /\ MAX_CLIENTS_PER_PATH = 0
    /\ pathsRefs # <<>>
    /\ ret = nullptr

\* C16: client_closed for a client with no entry in the client table changes
\* neither table, no refcount and no mounted endpoint.
C16_UnknownClientStep ==
    \A client \in Clients \ DOMAIN clientsToPaths :
        client_closed(client)
        => UNCHANGED <<pathsRefs, clientsToPaths, mounts, proxy, created, faults>>

C16_UnknownClientNoOp == [][C16_UnknownClientStep]_vars

\* one client has been disconnected (a second notification for it finds no
\* entry) while the other one keeps a mounted path
C16_Witness ==
    /\ Len(created) >= 2
    /\ \E c \in Clients :
           /\ c \notin DOMAIN clientsToPaths
           /\ DOMAIN clientsToPaths = Clients \ {c}
    /\ pathsRefs # <<>>

\* C17: a client has one "closed" handler while it has an entry in the client
\* table and none otherwise, and a handler is connected only by the call that
\* puts the client into the table.
C17_OneHandlerState ==
    \A c \in Clients :
        closedHandlers[c] = IF c \in DOMAIN clientsToPaths THEN 1 ELSE 0

C17_ConnectStep ==
    \A c \in Clients :
        closedHandlers'[c] > closedHandlers[c]
        => /\ c \notin DOMAIN clientsToPaths
           /\ c \in DOMAIN clientsToPaths'
           /\ closedHandlers'[c] = closedHandlers[c] + 1

C17_SubscribedOnce == []C17_OneHandlerState /\ [][C17_ConnectStep]_vars

\* a client whose second admitted request added a second path
C17_Witness ==
    \E c \in DOMAIN clientsToPaths :
        /\ clientsToPaths[c] = Paths
        /\ closedHandlers[c] = 1

\* C18: a step changes a refcount by at most 1; make_path removes no path,
\* lowers no refcount and raises only the refcount of the requested path; a
\* path leaves the table only in client_closed of a client holding it, when
\* its refcount was 1.
C18_TransitionsStep ==
    /\ \A p \in Paths :
           /\ RefcountIn(pathsRefs', p) - RefcountIn(pathsRefs, p) \in {-1, 0, 1}
           /\ RefcountIn(pathsRefs', p) >= 0
           /\ p \in DOMAIN pathsRefs /\ p \notin DOMAIN pathsRefs'
              => /\ pathsRefs[p] = 1
                 /\ \E c \in DOMAIN clientsToPaths :
                        p \in clientsToPaths[c] /\ client_closed(c)
    /\ (\E p \in Paths : RefcountIn(pathsRefs', p) < RefcountIn(pathsRefs, p))
       => \E c \in DOMAIN clientsToPaths : client_closed(c)
    /\ ~ \E client \in Clients, token \in Tokens, path \in Paths, isRecord \in BOOLEAN :
           /\ pathsRefs' # pathsRefs
           /\ \E p \in Paths :
                  \/ RefcountIn(pathsRefs', p) < RefcountIn(pathsRefs, p)
                  \/ p # path /\ RefcountIn(pathsRefs', p) # RefcountIn(pathsRefs, p)
                  \/ p \in DOMAIN pathsRefs /\ p \notin DOMAIN pathsRefs'
           /\ make_path(client, token, path, isRecord)

C18_Transitions == [][C18_TransitionsStep]_vars

\* a path has gone 0 -> 1 -> 2 -> 1 while another one has come and gone
C18_Witness ==
    /\ Len(created) >= 2
    /\ \E p \in DOMAIN pathsRefs :
           /\ DOMAIN pathsRefs = {p}
           /\ pathsRefs[p] = 1
           /\ mounts[p].channel = "proxy0"
    /\ Cardinality(DOMAIN clientsToPaths) = 1

\* C19: a request that is refused by the policy, or finds the path limit or
\* the client limit reached, returns nullptr and leaves the tables, the
\* mounted endpoints, the channel counter and the handlers as they were.
C19_RejectedStep ==
    ~ \E client \in Clients, token \in Tokens, path \in Paths, isRecord \in BOOLEAN :
        /\ \/ ~PolicyAllows(token, path)
           \/ PathLimitHit(path)
           \/ ClientLimitHit(path)
        /\ ~ (ret' = nullptr /\ registry' = registry)
        /\ make_path(client, token, path, isRecord)

C19_RejectedChangesNothing == [][C19_RejectedStep]_vars

\* a client that is not in the table has just been refused a new path on a
\* full table
C19_Witness ==
    /\ MAX_PATHS_COUNT = 1
    /\ MAX_CLIENTS_PER_PATH = 0
    /\ callbacks = NoCallback
    /\ ret = nullptr
    /\ Cardinality(DOMAIN pathsRefs) = 1
    /\ Cardinality(DOMAIN clientsToPaths) = 1
    /\ \E c \in Clients : closedHandlers[c] = 0

\* C20: every path in a client's path set is in the path table, the assert
\* of the creation branch has not failed and the "Inconsistent data" branch
\* of client_closed has not been taken.
C20_HeldPathsPresent ==
    /\ \A c \in DOMAIN clientsToPaths : clientsToPaths[c] \subseteq DOMAIN pathsRefs
    /\ "assert" \notin faults
    /\ "inconsistent" \notin faults

\* both clients hold both paths after a path has been created a second time
C20_Witness ==
    /\ Len(created) = MaxProxy
    /\ DOMAIN clientsToPaths = Clients
    /\ \A c \in Clients : clientsToPaths[c] = Paths
    /\ DOMAIN pathsRefs = Paths

\* no thread is inside make_path or client_closed
AllIdle == \A c \in Clients : threads[c].pc = "idle"

\* C11: when the calls of different clients interleave, then whenever no call
\* is in progress every path in the table has a refcount > 0 that equals the
\* number of clients holding it, and every held path is in the table (stated
\* for the runs in which no client asks again for a path it holds, so that the
\* increment of C2 plays no part).
C11_InvariantsUnderInterleaving ==
    AllIdle /\ ~repeated
    => /\ \A p \in DOMAIN pathsRefs :
              /\ pathsRefs[p] > 0
              /\ pathsRefs[p] = Cardinality(HoldersIn(clientsToPaths, p))
       /\ \A p \in Paths :
              HoldersIn(clientsToPaths, p) # {} => p \in DOMAIN pathsRefs

\* C12: when two calls that each create a new entry, for different paths,
\* interleave, the two entries get different channel names: no two mounted
\* paths share a channel.
C12_ChannelNamesUnderInterleaving ==
    \A p, q \in Paths :
        p # q /\ p \in DOMAIN mounts /\ q \in DOMAIN mounts
        => mounts[p].channel # mounts[q].channel

====
